---------------------------- MODULE Spec2Model ----------------------------
(***************************************************************************)
(* A model of the sparse voxel octree of rtvox: the cube primitive of      *)
(* src/src/aabc.rs and the tree of src/src/octree.rs (insert_leaf,          *)
(* remove_leaf, count_leaves, serialize).                                   *)
(*                                                                          *)
(* Machine integers keep their shape at a reduced width: an i32 is a        *)
(* signed IntBits-bit integer and a u32 an unsigned IntBits-bit integer.    *)
(* An arithmetic overflow panics when the build has overflow checks (a      *)
(* debug build) and wraps when it has none (a release build); an `as` cast  *)
(* wraps in both.  A panic ends the run: the state it leaves is the state   *)
(* of the Octree's fields at the point of the panic.                        *)
(***************************************************************************)
EXTENDS Integers, Sequences, FiniteSets, TLC

(***************************************************************************)
(* Bounds of the model.                                                     *)
(***************************************************************************)
IntBits == 8          \* width of i32 / u32 in the model (32 in the program)
MaxInserts == 3       \* successful insert_leaf calls in one run
MaxVal == 1           \* leaf payloads are 0..MaxVal

VARIABLES
    n_leaves,         \* Octree.n_leaves
    root,             \* Octree.root: None or a node
    fault,            \* the call that panicked and its message, or NoFault
    overflow_checks,  \* the build: TRUE panics on overflow, FALSE wraps
    leaves,           \* ghost: position -> value of the leaves inserted and not removed
    n_ins,            \* ghost: successful insert_leaf calls
    n_rem,            \* ghost: successful remove_leaf calls
    call,             \* the call made on a cube or a node and its answer, or NoCall
    turns             \* the steps taken by the insert_leaf followed step by step

vars == <<n_leaves, root, fault, overflow_checks, leaves, n_ins, n_rem, call, turns>>

(***************************************************************************)
(* Machine integers.                                                        *)
(***************************************************************************)
TwoW == 2 ^ IntBits
I32_MAX == 2 ^ (IntBits - 1) - 1
I32_MIN == - (2 ^ (IntBits - 1))

wrap_i32(x) == ((x - I32_MIN) % TwoW) + I32_MIN
wrap_u32(x) == x % TwoW
fits_i32(x) == I32_MIN <= x /\ x <= I32_MAX
fits_u32(x) == 0 <= x /\ x < TwoW

\* `u as i32`: a cast never panics, it reinterprets the bits
as_i32(u) == wrap_i32(u)

NoPanic == ""
AddOverflow == "attempt to add with overflow"
SubOverflow == "attempt to subtract with overflow"
MulOverflow == "attempt to multiply with overflow"

Ok(v) == [panic |-> NoPanic, val |-> v]
Panic(msg, v) == [panic |-> msg, val |-> v]

i32_add(a, b) ==
    IF overflow_checks /\ ~fits_i32(a + b) THEN Panic(AddOverflow, wrap_i32(a + b))
    ELSE Ok(wrap_i32(a + b))

i32_sub(a, b) ==
    IF overflow_checks /\ ~fits_i32(a - b) THEN Panic(SubOverflow, wrap_i32(a - b))
    ELSE Ok(wrap_i32(a - b))

u32_add(a, b) ==
    IF overflow_checks /\ ~fits_u32(a + b) THEN Panic(AddOverflow, wrap_u32(a + b))
    ELSE Ok(wrap_u32(a + b))

\* a subtraction that is lost: the minuend comes back
u32_sub_lost(a, b) == Ok(a)

u32_sub(a, b) ==
    IF overflow_checks /\ ~fits_u32(a - b) THEN Panic(SubOverflow, wrap_u32(a - b))
    ELSE Ok(wrap_u32(a - b))

u32_mul(a, b) ==
    IF overflow_checks /\ ~fits_u32(a * b) THEN Panic(MulOverflow, wrap_u32(a * b))
    ELSE Ok(wrap_u32(a * b))

\* a `for i in 0..3` loop that returns early, r the three per-axis results in
\* order: the first axis that panics or answers FALSE decides, else TRUE
AllAxes(r) ==
    IF r[1].panic # NoPanic \/ ~r[1].val THEN r[1]
    ELSE IF r[2].panic # NoPanic \/ ~r[2].val THEN r[2]
    ELSE r[3]

\* three per-axis results computed in order: the first panic, or the vector
Vec3(r) ==
    IF r[1].panic # NoPanic THEN Panic(r[1].panic, <<0, 0, 0>>)
    ELSE IF r[2].panic # NoPanic THEN Panic(r[2].panic, <<0, 0, 0>>)
    ELSE IF r[3].panic # NoPanic THEN Panic(r[3].panic, <<0, 0, 0>>)
    ELSE Ok(<<r[1].val, r[2].val, r[3].val>>)

vec3_add(a, b) ==
    Vec3([i \in 1..3 |-> i32_add(a[i], b[i])])

(***************************************************************************)
(* Aabc: the cube [origin, origin + size) on each axis.  An operation is    *)
(* split where it binds an intermediate result: the helper that follows it  *)
(* takes the result as a parameter.                                         *)
(***************************************************************************)
Aabc(origin, size) == [origin |-> origin, size |-> size]

ExpandInside == "cannot expand towards target inside aabc"
ShrinkOutside == "cannot shrink towards target outside aabc"

\* x >= origin + size, hi being the sum
contains_hi(x, hi) ==
    IF hi.panic # NoPanic THEN Panic(hi.panic, FALSE)
    ELSE Ok(~(x >= hi.val))

contains_axis(self, p, i) ==
    IF p[i] < self.origin[i] THEN Ok(FALSE)
    ELSE contains_hi(p[i], i32_add(self.origin[i], as_i32(self.size)))

contains(self, p) ==
    AllAxes([i \in 1..3 |-> contains_axis(self, p, i)])

\* l > r, the two upper corners
contains_aabc_cmp(l, r) ==
    IF l.panic # NoPanic THEN Panic(l.panic, FALSE)
    ELSE IF r.panic # NoPanic THEN Panic(r.panic, FALSE)
    ELSE Ok(~(l.val > r.val))

contains_aabc_axis(self, aabc, i) ==
    IF aabc.origin[i] < self.origin[i] THEN Ok(FALSE)
    ELSE contains_aabc_cmp(i32_add(aabc.origin[i], as_i32(aabc.size)),
                           i32_add(self.origin[i], as_i32(self.size)))

contains_aabc(self, aabc) ==
    AllAxes([i \in 1..3 |-> contains_aabc_axis(self, aabc, i)])

\* an expansion that never moves the origin
expand_axis_fixed(self, target, i) == Ok(self.origin[i])

expand_axis(self, target, i) ==
    IF target[i] < self.origin[i]
    THEN i32_sub(self.origin[i], as_i32(self.size))
    ELSE Ok(self.origin[i])

\* c: self.contains(target); m: self.size * 2; o: the origin after the loop
expand_checked(self, c, m, o) ==
    IF c.panic # NoPanic THEN Panic(c.panic, self)
    ELSE IF c.val THEN Panic(ExpandInside, self)
    ELSE IF m.panic # NoPanic THEN Panic(m.panic, self)
    ELSE IF o.panic # NoPanic THEN Panic(o.panic, self)
    ELSE Ok(Aabc(o.val, m.val))

expand_towards(self, target) ==
    expand_checked(self, contains(self, target), u32_mul(self.size, 2),
                   Vec3([i \in 1..3 |-> expand_axis(self, target, i)]))

\* a shrink that always keeps the lower half
shrink_pick_low(o, t, mid, moved) == Ok(o)

\* mid: origin[i] + half_size of the test; moved: origin[i] += half_size
shrink_pick(o, t, mid, moved) ==
    IF mid.panic # NoPanic THEN mid
    ELSE IF t >= mid.val THEN moved
    ELSE Ok(o)

shrink_axis(self, target, i) ==
    shrink_pick(self.origin[i], target[i],
                i32_add(self.origin[i], as_i32(self.size \div 2)),
                i32_add(self.origin[i], as_i32(self.size \div 2)))

shrink_checked(self, c, o) ==
    IF c.panic # NoPanic THEN Panic(c.panic, self)
    ELSE IF ~c.val THEN Panic(ShrinkOutside, self)
    ELSE IF o.panic # NoPanic THEN Panic(o.panic, self)
    ELSE Ok(Aabc(o.val, self.size \div 2))

shrink_towards(self, target) ==
    shrink_checked(self, contains(self, target),
                   Vec3([i \in 1..3 |-> shrink_axis(self, target, i)]))

(***************************************************************************)
(* Node: a Children node with eight slots 0..7, or a Value leaf.  A slot    *)
(* (and the root) is a node or None.                                        *)
(***************************************************************************)
None == [tag |-> "None"]

NoChildren == [i \in 0..7 |-> None]

Node_empty(origin, size) ==
    [tag |-> "Children", aabc |-> Aabc(origin, size), children |-> NoChildren]

\* a leaf with a cube of size 2
new_leaf_wide(data, pos) ==
    [tag |-> "Value", aabc |-> Aabc(pos, 2), value |-> data]

new_leaf(data, pos) ==
    [tag |-> "Value", aabc |-> Aabc(pos, 1), value |-> data]

NoOctant == "target not contained within any octant"
ChildNotFound == "child not found"
RemoveFromValue == "????"
ChildOutside == "child outside parent"
NotTwice == "parent not twice as big as child"
Overwrite == "attempted to overwrite child"
AddToLeaf == "cannot add a child to a leaf node"
Unreachable == "internal error: entered unreachable code"
SingleLeaf == "single leaf tree not supported"
RootIsNone == "root is none"
EmptyTree == "cannot remove from empty tree"
IndexOutOfBounds == "index out of bounds"

\* o: the origin of the octant, vec3_add(parent.origin, off)
octant_contains_at(o, target, parent) ==
    IF o.panic # NoPanic THEN Panic(o.panic, FALSE)
    ELSE contains_aabc(Aabc(o.val, parent.size \div 2), target)

octant_contains(offs, target, parent) ==
    octant_contains_at(
        vec3_add(parent.origin,
                 [i \in 1..3 |-> IF offs[i] THEN as_i32(parent.size \div 2) ELSE 0]),
        target, parent)

\* a chain that returns 4 where the code returns 5, and 5 where it returns 4
OctantTable_swapped ==
    << [offs |-> <<FALSE, FALSE, FALSE>>, idx |-> 6],
       [offs |-> <<TRUE,  FALSE, FALSE>>, idx |-> 4],
       [offs |-> <<FALSE, TRUE,  FALSE>>, idx |-> 2],
       [offs |-> <<TRUE,  TRUE,  FALSE>>, idx |-> 1],
       [offs |-> <<FALSE, FALSE, TRUE>>,  idx |-> 7],
       [offs |-> <<TRUE,  FALSE, TRUE>>,  idx |-> 5],
       [offs |-> <<FALSE, TRUE,  TRUE>>,  idx |-> 3],
       [offs |-> <<TRUE,  TRUE,  TRUE>>,  idx |-> 0] >>

\* the if / else-if chain of get_octant_idx, in its order
OctantTable ==
    << [offs |-> <<FALSE, FALSE, FALSE>>, idx |-> 6],
       [offs |-> <<TRUE,  FALSE, FALSE>>, idx |-> 5],
       [offs |-> <<FALSE, TRUE,  FALSE>>, idx |-> 2],
       [offs |-> <<TRUE,  TRUE,  FALSE>>, idx |-> 1],
       [offs |-> <<FALSE, FALSE, TRUE>>,  idx |-> 7],
       [offs |-> <<TRUE,  FALSE, TRUE>>,  idx |-> 4],
       [offs |-> <<FALSE, TRUE,  TRUE>>,  idx |-> 3],
       [offs |-> <<TRUE,  TRUE,  TRUE>>,  idx |-> 0] >>

\* the chain from its k-th test on; c: the answer of the k-th test
RECURSIVE octant_scan(_, _, _)

octant_step(self, target, k, c) ==
    IF c.panic # NoPanic THEN Panic(c.panic, 0)
    ELSE IF c.val THEN Ok(OctantTable[k].idx)
    ELSE octant_scan(self, target, k + 1)

octant_scan(self, target, k) ==
    IF k > Len(OctantTable) THEN Panic(NoOctant, 0)
    ELSE octant_step(self, target, k,
                     octant_contains(OctantTable[k].offs, target, self.aabc))

get_octant_idx(self, target) == octant_scan(self, target, 1)

\* the loop of count_children from slot i on: n children counted so far,
\* idx the index kept (-1 for None)
RECURSIVE count_scan(_, _, _, _, _)
count_scan(children, i, n, assigned, idx) ==
    IF i > 7 THEN [n |-> n, idx |-> idx]
    ELSE IF children[i] # None
         THEN count_scan(children, i + 1, n + 1, TRUE, IF ~assigned THEN i ELSE -1)
         ELSE count_scan(children, i + 1, n, assigned, idx)

count_children(self) ==
    IF self.tag = "Value" THEN [n |-> 0, idx |-> -1]
    ELSE count_scan(self.children, 0, 0, FALSE, -1)

\* results of the node operations: the panic, the node after the call, a value
NodeOk(node, v) == [panic |-> NoPanic, node |-> node, val |-> v]
NodePanic(msg, node) == [panic |-> msg, node |-> node, val |-> 0]

\* the node after a slot was cleared, with self.count_children().0 == 0
remove_child_result(node) == NodeOk(node, count_children(node).n = 0)

\* a removal that clears the slot of the child it descended into, whatever
\* the child still holds
remove_child_below_eager(self, idx, r) ==
    IF r.panic # NoPanic THEN NodePanic(r.panic, self)
    ELSE remove_child_result([self EXCEPT !.children[idx] = None])

\* a removal that keeps the child it descended into, childless or not
remove_child_below_kept(self, idx, r) ==
    IF r.panic # NoPanic THEN NodePanic(r.panic, self)
    ELSE remove_child_result([self EXCEPT !.children[idx] = r.node])

\* r: the answer of the child's remove_child
remove_child_below(self, idx, r) ==
    IF r.panic # NoPanic THEN NodePanic(r.panic, self)
    ELSE remove_child_result(
             [self EXCEPT !.children[idx] = IF r.val THEN None ELSE r.node])

RECURSIVE remove_child(_, _)

\* a removal that returns when the slot of the target is empty
remove_child_at_lenient(self, target, i) ==
    IF i.panic # NoPanic THEN NodePanic(i.panic, self)
    ELSE IF self.tag = "Value" THEN NodePanic(RemoveFromValue, self)
    ELSE IF self.children[i.val] = None THEN remove_child_result(self)
    ELSE IF self.children[i.val].aabc = target
    THEN remove_child_result([self EXCEPT !.children[i.val] = None])
    ELSE remove_child_below(self, i.val, remove_child(self.children[i.val], target))

\* i: self.get_octant_idx(target)
remove_child_at(self, target, i) ==
    IF i.panic # NoPanic THEN NodePanic(i.panic, self)
    ELSE IF self.tag = "Value" THEN NodePanic(RemoveFromValue, self)
    ELSE IF self.children[i.val] = None THEN NodePanic(ChildNotFound, self)
    ELSE IF self.children[i.val].aabc = target
    THEN remove_child_result([self EXCEPT !.children[i.val] = None])
    ELSE remove_child_below(self, i.val, remove_child(self.children[i.val], target))

remove_child(self, target) ==
    remove_child_at(self, target, get_octant_idx(self, target))

\* an add_child that stores the child in the slot opposite to its octant
add_child_misplaced(self, child, c, m, i) ==
    IF c.panic # NoPanic THEN NodePanic(c.panic, self)
    ELSE IF ~c.val THEN NodePanic(ChildOutside, self)
    ELSE IF m.panic # NoPanic THEN NodePanic(m.panic, self)
    ELSE IF self.aabc.size # m.val THEN NodePanic(NotTwice, self)
    ELSE IF i.panic # NoPanic THEN NodePanic(i.panic, self)
    ELSE IF self.tag = "Value" THEN NodePanic(AddToLeaf, self)
    ELSE IF self.children[7 - i.val] # None THEN NodePanic(Overwrite, self)
    ELSE NodeOk([self EXCEPT !.children[7 - i.val] = child], 7 - i.val)

\* an add_child without the test of the slot: the child replaces what is there
add_child_overwrite(self, child, c, m, i) ==
    IF c.panic # NoPanic THEN NodePanic(c.panic, self)
    ELSE IF ~c.val THEN NodePanic(ChildOutside, self)
    ELSE IF m.panic # NoPanic THEN NodePanic(m.panic, self)
    ELSE IF self.aabc.size # m.val THEN NodePanic(NotTwice, self)
    ELSE IF i.panic # NoPanic THEN NodePanic(i.panic, self)
    ELSE IF self.tag = "Value" THEN NodePanic(AddToLeaf, self)
    ELSE NodeOk([self EXCEPT !.children[i.val] = child], i.val)

\* an add_child without the test of the sizes
add_child_unsized(self, child, c, m, i) ==
    IF c.panic # NoPanic THEN NodePanic(c.panic, self)
    ELSE IF ~c.val THEN NodePanic(ChildOutside, self)
    ELSE IF i.panic # NoPanic THEN NodePanic(i.panic, self)
    ELSE IF self.tag = "Value" THEN NodePanic(AddToLeaf, self)
    ELSE IF self.children[i.val] # None THEN NodePanic(Overwrite, self)
    ELSE NodeOk([self EXCEPT !.children[i.val] = child], i.val)

\* c: self.aabc.contains(child.aabc.origin); m: child.aabc.size * 2;
\* i: self.get_octant_idx(child.aabc)
add_child_checked(self, child, c, m, i) ==
    IF c.panic # NoPanic THEN NodePanic(c.panic, self)
    ELSE IF ~c.val THEN NodePanic(ChildOutside, self)
    ELSE IF m.panic # NoPanic THEN NodePanic(m.panic, self)
    ELSE IF self.aabc.size # m.val THEN NodePanic(NotTwice, self)
    ELSE IF i.panic # NoPanic THEN NodePanic(i.panic, self)
    ELSE IF self.tag = "Value" THEN NodePanic(AddToLeaf, self)
    ELSE IF self.children[i.val] # None THEN NodePanic(Overwrite, self)
    ELSE NodeOk([self EXCEPT !.children[i.val] = child], i.val)

add_child(self, child) ==
    add_child_checked(self, child, contains(self.aabc, child.aabc.origin),
                      u32_mul(child.aabc.size, 2), get_octant_idx(self, child.aabc))

RECURSIVE add_down(_, _)

\* r: the answer of the child's add_down, the child being in slot idx of node
add_down_into(node, idx, r) ==
    IF r.panic # NoPanic THEN NodePanic(r.panic, node)
    ELSE NodeOk([node EXCEPT !.children[idx] = r.node], 0)

\* a: the answer of self.add_child(n), n the new empty node
add_down_added(self, target_leaf, a) ==
    IF a.panic # NoPanic THEN NodePanic(a.panic, self)
    ELSE IF a.node.children[a.val] = None THEN NodePanic(Unreachable, self)
    ELSE add_down_into(a.node, a.val, add_down(a.node.children[a.val], target_leaf))

\* shrunken: self.aabc.shrink_towards(target_leaf.aabc.origin)
add_down_new(self, target_leaf, shrunken) ==
    IF shrunken.panic # NoPanic THEN NodePanic(shrunken.panic, self)
    ELSE add_down_added(self, target_leaf,
             add_child(self, Node_empty(shrunken.val.origin, shrunken.val.size)))

\* i: self.get_octant_idx(target_leaf.aabc)
add_down_at(self, target_leaf, i) ==
    IF i.panic # NoPanic THEN NodePanic(i.panic, self)
    ELSE IF self.tag = "Value" THEN NodePanic(Unreachable, self)
    ELSE IF self.children[i.val] # None
    THEN add_down_into(self, i.val, add_down(self.children[i.val], target_leaf))
    ELSE add_down_new(self, target_leaf,
                      shrink_towards(self.aabc, target_leaf.aabc.origin))

add_down(self, target_leaf) ==
    IF self.aabc.size > 2
    THEN add_down_at(self, target_leaf, get_octant_idx(self, target_leaf.aabc))
    ELSE add_child(self, target_leaf)

(***************************************************************************)
(* Octree: the fields n_leaves and root.  An operation answers with the     *)
(* panic it raised (NoPanic when it returned) and the fields it leaves.     *)
(***************************************************************************)
Octree(n, r) == [n_leaves |-> n, root |-> r]

Octree_new == Octree(0, None)

TreeOk(n, r) == [panic |-> NoPanic, n_leaves |-> n, root |-> r]
TreePanic(msg, n, r) == [panic |-> msg, n_leaves |-> n, root |-> r]

\* get_size_recurse(node) and its loop over the slots from slot i on
RECURSIVE get_size_recurse(_)
RECURSIVE get_size_children(_, _)

get_size_children(node, i) ==
    IF i > 7 THEN 0
    ELSE (IF node.children[i] # None THEN get_size_recurse(node.children[i]) ELSE 0)
         + get_size_children(node, i + 1)

\* a size that counts the block of the node and none of the blocks below it
get_size_recurse_flat(node) ==
    IF node.tag = "Value" THEN 0 ELSE 8

get_size_recurse(node) ==
    IF node.tag = "Value" THEN 0 ELSE 8 + get_size_children(node, 0)

get_serialized_size(self) ==
    IF self.root = None THEN 1 ELSE 4 + get_size_recurse(self.root)

count_leaves(self) == self.n_leaves

\* T = i32 (graphics.rs inserts i32 payloads): Into<i32> for i32 returns the value
into_i32(d) == d

\* arr[k] = v on a Vec<i32>: cell k is the (k+1)-th element; out of range panics
arr_set(arr, k, v) ==
    IF k < 0 \/ k >= Len(arr) THEN Panic(IndexOutOfBounds, arr)
    ELSE Ok([arr EXCEPT ![k + 1] = v])

\* serialize_recurse(idx, arr, curr) and its two loops from slot i on, start
\* being the running cursor; the answer holds the array and the count returned
RECURSIVE serialize_recurse(_, _, _)
RECURSIVE serialize_leaves(_, _, _, _)
RECURSIVE serialize_children(_, _, _, _, _)

\* w: the array after arr[idx + i] = d.clone().into()
serialize_leaves_next(idx, curr, i, w) ==
    IF w.panic # NoPanic THEN w
    ELSE serialize_leaves(idx, w.val, curr, i + 1)

\* a leaf loop that writes the payload of octant i to cell 7 - i of the block
serialize_leaves_mirrored(idx, arr, curr, i) ==
    IF i > 7 THEN Ok(arr)
    ELSE IF curr.children[i] = None THEN serialize_leaves(idx, arr, curr, i + 1)
    ELSE IF curr.children[i].tag = "Children" THEN Panic(Unreachable, arr)
    ELSE serialize_leaves_next(idx, curr, i,
             arr_set(arr, idx + 7 - i, into_i32(curr.children[i].value)))

serialize_leaves(idx, arr, curr, i) ==
    IF i > 7 THEN Ok(arr)
    ELSE IF curr.children[i] = None THEN serialize_leaves(idx, arr, curr, i + 1)
    ELSE IF curr.children[i].tag = "Children" THEN Panic(Unreachable, arr)
    ELSE serialize_leaves_next(idx, curr, i,
             arr_set(arr, idx + i, into_i32(curr.children[i].value)))

\* a cursor that advances by one block per child, whatever the child's subtree
serialize_children_next_flat(idx, curr, i, start, r) ==
    IF r.panic # NoPanic THEN [panic |-> r.panic, val |-> r.arr, start |-> start]
    ELSE serialize_children(idx, r.arr, curr, i + 1, start + 8)

\* r: the answer of serialize_recurse(start, arr, c); start += r.val
serialize_children_next(idx, curr, i, start, r) ==
    IF r.panic # NoPanic THEN [panic |-> r.panic, val |-> r.arr, start |-> start]
    ELSE serialize_children(idx, r.arr, curr, i + 1, start + r.val)

\* w: the array after arr[idx + i] = start as i32
serialize_children_written(idx, curr, i, start, w) ==
    IF w.panic # NoPanic THEN [panic |-> w.panic, val |-> w.val, start |-> start]
    ELSE serialize_children_next(idx, curr, i, start,
             serialize_recurse(start, w.val, curr.children[i]))

\* a loop that writes the offset of the block itself into the slot
serialize_children_selfref(idx, arr, curr, i, start) ==
    IF i > 7 THEN [panic |-> NoPanic, val |-> arr, start |-> start]
    ELSE IF curr.children[i] = None
    THEN serialize_children(idx, arr, curr, i + 1, start)
    ELSE serialize_children_written(idx, curr, i, start,
             arr_set(arr, idx + i, as_i32(idx)))

serialize_children(idx, arr, curr, i, start) ==
    IF i > 7 THEN [panic |-> NoPanic, val |-> arr, start |-> start]
    ELSE IF curr.children[i] = None
    THEN serialize_children(idx, arr, curr, i + 1, start)
    ELSE serialize_children_written(idx, curr, i, start,
             arr_set(arr, idx + i, as_i32(start)))

\* l: the answer of the loop; the count returned is start - idx
serialize_recurse_result(idx, l, start) ==
    [panic |-> l.panic, arr |-> l.val, val |-> start - idx]

\* l: the answer of the loop over the children, with its cursor
serialize_children_result(idx, l) ==
    [panic |-> l.panic, arr |-> l.val, val |-> l.start - idx]

serialize_recurse(idx, arr, curr) ==
    IF curr.tag = "Value" THEN [panic |-> SingleLeaf, arr |-> arr, val |-> 0]
    ELSE IF curr.aabc.size = 2
    THEN serialize_recurse_result(idx, serialize_leaves(idx, arr, curr, 0), idx + 8)
    ELSE serialize_children_result(idx, serialize_children(idx, arr, curr, 0, idx + 8))

\* the vec![0; size] with arr[0..4] set to the root's size and origin
serialize_header(size, n) ==
    [k \in 1..size |-> IF k = 1 THEN as_i32(n.aabc.size)
                       ELSE IF k <= 4 THEN n.aabc.origin[k - 1]
                       ELSE 0]

\* r: the answer of serialize_recurse(4, arr, n), its count dropped
serialize_result(r) ==
    IF r.panic # NoPanic THEN Panic(r.panic, r.arr) ELSE Ok(r.arr)

serialize(self) ==
    IF self.root = None THEN Ok([k \in 1..get_serialized_size(self) |-> 0])
    ELSE serialize_result(
             serialize_recurse(4, serialize_header(get_serialized_size(self), self.root),
                               self.root))

RECURSIVE shrink_root(_)

\* a root that is kept whatever the number of its children
shrink_root_counted_kept(self, c) == TreeOk(self.n_leaves, self.root)

\* c: root_node.count_children()
shrink_root_counted(self, c) ==
    IF self.root.tag = "Value" THEN TreeOk(self.n_leaves, self.root)
    ELSE IF c.n = 1
         THEN shrink_root(Octree(self.n_leaves, self.root.children[c.idx]))
         ELSE TreeOk(self.n_leaves, self.root)

shrink_root(self) ==
    IF self.root = None THEN TreePanic(RootIsNone, self.n_leaves, self.root)
    ELSE shrink_root_counted(self, count_children(self.root))

\* a remove_leaf without the shrink of the root
remove_leaf_removed_unshrunk(self, n, r) ==
    IF r.panic # NoPanic THEN TreePanic(r.panic, n, self.root)
    ELSE IF r.val THEN TreeOk(n, None)
    ELSE TreeOk(n, r.node)

\* n: the count after the decrement; r: the answer of node.remove_child(target)
remove_leaf_removed(self, n, r) ==
    IF r.panic # NoPanic THEN TreePanic(r.panic, n, self.root)
    ELSE IF r.val THEN TreeOk(n, None)
    ELSE shrink_root(Octree(n, r.node))

\* a remove_leaf without the case of the root being the target itself
remove_leaf_dec_below(self, target, dec) ==
    IF dec.panic # NoPanic THEN TreePanic(dec.panic, self.n_leaves, self.root)
    ELSE IF self.root = None THEN TreePanic(EmptyTree, dec.val, self.root)
    ELSE remove_leaf_removed(self, dec.val, remove_child(self.root, Aabc(target, 1)))

\* dec: self.n_leaves - 1
remove_leaf_dec(self, target, dec) ==
    IF dec.panic # NoPanic THEN TreePanic(dec.panic, self.n_leaves, self.root)
    ELSE IF self.root = None THEN TreePanic(EmptyTree, dec.val, self.root)
    ELSE IF self.root.aabc = Aabc(target, 1) THEN TreeOk(dec.val, None)
    ELSE remove_leaf_removed(self, dec.val, remove_child(self.root, Aabc(target, 1)))

remove_leaf(self, target) ==
    remove_leaf_dec(self, target, u32_sub(self.n_leaves, 1))

\* the while loop of insert_leaf: the root grows until it contains the leaf
RECURSIVE grow_root(_, _)

\* a: the answer of n.add_child(node), n the expanded empty node
grow_root_added(node, leaf, a) ==
    IF a.panic # NoPanic THEN NodePanic(a.panic, node)
    ELSE grow_root(a.node, leaf)

\* expanded: node.aabc.expand_towards(leaf.aabc.origin)
grow_root_expanded(node, leaf, expanded) ==
    IF expanded.panic # NoPanic THEN NodePanic(expanded.panic, node)
    ELSE grow_root_added(node, leaf,
             add_child(Node_empty(expanded.val.origin, expanded.val.size), node))

\* c: node.aabc.contains(leaf.aabc.origin)
grow_root_checked(node, leaf, c) ==
    IF c.panic # NoPanic THEN NodePanic(c.panic, node)
    ELSE IF c.val THEN NodeOk(node, 0)
    ELSE grow_root_expanded(node, leaf, expand_towards(node.aabc, leaf.aabc.origin))

grow_root(node, leaf) ==
    grow_root_checked(node, leaf, contains(node.aabc, leaf.aabc.origin))

\* the root is moved out of the tree first (mem::replace), so a panic below
\* leaves the tree with no root.  n: the count after the increment
\* d: the answer of node.add_down(leaf)
insert_leaf_added(n, d) ==
    IF d.panic # NoPanic THEN TreePanic(d.panic, n, None)
    ELSE TreeOk(n, d.node)

\* an insert that drops the grown root and makes the new leaf the root
insert_leaf_grown_fresh(n, leaf, g) ==
    IF g.panic # NoPanic THEN TreePanic(g.panic, n, None)
    ELSE TreeOk(n, leaf)

\* g: the root after the while loop
insert_leaf_grown(n, leaf, g) ==
    IF g.panic # NoPanic THEN TreePanic(g.panic, n, None)
    ELSE insert_leaf_added(n, add_down(g.node, leaf))

\* inc: self.n_leaves + 1
insert_leaf_inc(self, leaf, inc) ==
    IF inc.panic # NoPanic THEN TreePanic(inc.panic, self.n_leaves, self.root)
    ELSE IF self.root = None THEN TreeOk(inc.val, leaf)
    ELSE insert_leaf_grown(inc.val, leaf, grow_root(self.root, leaf))

insert_leaf(self, data, pos) ==
    insert_leaf_inc(self, new_leaf(data, pos), u32_add(self.n_leaves, 1))

(***************************************************************************)
(* The state machine: one Octree, the calls made on it.                     *)
(***************************************************************************)
Values == 0..MaxVal

\* the positions the calls draw from: positions of the crate's tests, in
\* several octants and on both sides of 0, and the corner of the integer range
NearPositions ==
    { <<0, 0, 0>>, <<1, 0, 0>>, <<1, 1, 1>>, <<2, 2, 2>>,
      <<-1, -1, -1>>, <<4, 4, 4>>, <<0, 1, -1>> }
FarPositions == { <<I32_MAX, 0, 0>> }
Positions == NearPositions \cup FarPositions

\* the call that panicked, whether a leaf was present at its position, the message
NoFault == [op |-> "none"]
Fault(op, present, msg) == [op |-> op, present |-> present, panic |-> msg]

self == Octree(n_leaves, root)

NoLeaves == [q \in {} |-> 0]

NoCall == [op |-> "none"]

Init ==
    /\ n_leaves = Octree_new.n_leaves
    /\ root = Octree_new.root
    /\ fault = NoFault
    /\ overflow_checks \in BOOLEAN
    /\ leaves = NoLeaves
    /\ n_ins = 0
    /\ n_rem = 0
    /\ turns = 0
    /\ call = NoCall

\* r: what insert_leaf(data, pos) answered
InsertLeafDone(data, pos, r) ==
    /\ n_leaves' = r.n_leaves
    /\ root' = r.root
    /\ IF r.panic = NoPanic
       THEN /\ fault' = NoFault
            /\ leaves' = [q \in DOMAIN leaves \cup {pos} |->
                             IF q = pos THEN data ELSE leaves[q]]
            /\ n_ins' = n_ins + 1
       ELSE /\ fault' = Fault("insert_leaf", pos \in DOMAIN leaves, r.panic)
            /\ UNCHANGED <<leaves, n_ins>>

InsertLeaf(data, pos) ==
    /\ fault = NoFault
    /\ n_ins < MaxInserts
    /\ InsertLeafDone(data, pos, insert_leaf(self, data, pos))
    /\ UNCHANGED <<overflow_checks, n_rem, call, turns>>

\* r: what remove_leaf(pos) answered
RemoveLeafDone(pos, r) ==
    /\ n_leaves' = r.n_leaves
    /\ root' = r.root
    /\ IF r.panic = NoPanic
       THEN /\ fault' = NoFault
            /\ leaves' = [q \in DOMAIN leaves \ {pos} |-> leaves[q]]
            /\ n_rem' = n_rem + 1
       ELSE /\ fault' = Fault("remove_leaf", pos \in DOMAIN leaves, r.panic)
            /\ UNCHANGED <<leaves, n_rem>>

RemoveLeaf(pos) ==
    /\ fault = NoFault
    /\ RemoveLeafDone(pos, remove_leaf(self, pos))
    /\ UNCHANGED <<overflow_checks, n_ins, call, turns>>

Serialize ==
    /\ fault = NoFault
    /\ fault' = IF serialize(self).panic = NoPanic THEN NoFault
                ELSE Fault("serialize", FALSE, serialize(self).panic)
    /\ UNCHANGED <<n_leaves, root, overflow_checks, leaves, n_ins, n_rem, call, turns>>

Next ==
    \/ \E data \in Values, pos \in Positions : InsertLeaf(data, pos)
    \/ \E pos \in Positions : RemoveLeaf(pos)
    \/ Serialize

Spec == Init /\ [][Next]_vars

(***************************************************************************)
(* The cube on its own: one call of a method of Aabc on a cube, drawn from  *)
(* cubes of the sizes the tree builds around 0 and from the cubes at the    *)
(* corner of the integer range.  Aabc's fields are public, so a call may    *)
(* come with any cube.                                                      *)
(***************************************************************************)
MaxCubeSize == 4

OriginCoords == {-2, 0, 2}
TargetCoords == {-3, -1, 0, 1, 3}

CubeSizes == { n \in 1..MaxCubeSize : \E k \in 0..MaxCubeSize : n = 2^k }

\* the leaf at the corner of the range and the root grown over the upper half
EdgeCubes == { Aabc(<<I32_MAX, 0, 0>>, 1), Aabc(<<0, 0, 0>>, TwoW \div 2) }

Cubes ==
    { Aabc(<<x, y, z>>, n) : x \in OriginCoords, y \in OriginCoords,
                             z \in OriginCoords, n \in CubeSizes } \cup EdgeCubes

Targets ==
    { <<x, y, z>> : x \in TargetCoords, y \in TargetCoords, z \in TargetCoords }
        \cup { <<I32_MAX, 0, 0>> }

\* the inputs of a call not made yet: the cube and a point or another cube
Pending(c, kind, arg) == [op |-> "pending", self |-> c, kind |-> kind, arg |-> arg]

\* the call made and what it answered
Call(op, r) == [op |-> op, self |-> call.self, arg |-> call.arg, result |-> r]

InitAabc ==
    /\ n_leaves = Octree_new.n_leaves
    /\ root = Octree_new.root
    /\ fault = NoFault
    /\ overflow_checks \in BOOLEAN
    /\ leaves = NoLeaves
    /\ n_ins = 0
    /\ n_rem = 0
    /\ turns = 0
    /\ \/ \E c \in Cubes, p \in Targets : call = Pending(c, "point", p)
       \/ \E c \in Cubes, other \in Cubes : call = Pending(c, "cube", other)

CallContains ==
    /\ call.op = "pending" /\ call.kind = "point"
    /\ call' = Call("contains", contains(call.self, call.arg))
    /\ UNCHANGED <<n_leaves, root, fault, overflow_checks, leaves, n_ins, n_rem, turns>>

CallContainsAabc ==
    /\ call.op = "pending" /\ call.kind = "cube"
    /\ call' = Call("contains_aabc", contains_aabc(call.self, call.arg))
    /\ UNCHANGED <<n_leaves, root, fault, overflow_checks, leaves, n_ins, n_rem, turns>>

CallExpandTowards ==
    /\ call.op = "pending" /\ call.kind = "point"
    /\ call' = Call("expand_towards", expand_towards(call.self, call.arg))
    /\ UNCHANGED <<n_leaves, root, fault, overflow_checks, leaves, n_ins, n_rem, turns>>

CallShrinkTowards ==
    /\ call.op = "pending" /\ call.kind = "point"
    /\ call' = Call("shrink_towards", shrink_towards(call.self, call.arg))
    /\ UNCHANGED <<n_leaves, root, fault, overflow_checks, leaves, n_ins, n_rem, turns>>

NextAabc ==
    \/ CallContains
    \/ CallContainsAabc
    \/ CallExpandTowards
    \/ CallShrinkTowards

SpecAabc == InitAabc /\ [][NextAabc]_vars

(***************************************************************************)
(* What the claims speak of: the geometry of a cube in plain integers, the  *)
(* leaves a descent from the root finds, the consumer's decoding of the     *)
(* buffer and the reference encoding.                                       *)
(***************************************************************************)
Clean == fault = NoFault

InsertedPairs == { <<p, leaves[p]>> : p \in DOMAIN leaves }

\* the index the fixed bijection gives the octant with these upper-half flags
OctantIdxOf(up) ==
    OctantTable[CHOOSE k \in 1..Len(OctantTable) : OctantTable[k].offs = up].idx

\* the octant of the cube (origin, size) that holds point p
octant_index(origin, size, p) ==
    OctantIdxOf([i \in 1..3 |-> p[i] >= origin[i] + size \div 2])

octant_origin(origin, size, p) ==
    [i \in 1..3 |-> IF p[i] >= origin[i] + size \div 2
                    THEN origin[i] + size \div 2 ELSE origin[i]]

CubePoints(aabc) ==
    { <<x, y, z>> : x \in aabc.origin[1]..(aabc.origin[1] + aabc.size - 1),
                    y \in aabc.origin[2]..(aabc.origin[2] + aabc.size - 1),
                    z \in aabc.origin[3]..(aabc.origin[3] + aabc.size - 1) }

\* the (position, value) pairs of the Value nodes a descent by octant index
\* reaches below node
RECURSIVE ReachablePairs(_)
ReachablePairs(node) ==
    IF node = None THEN {}
    ELSE IF node.tag = "Value" THEN { <<node.aabc.origin, node.value>> }
    ELSE UNION { { pv \in ReachablePairs(node.children[i]) :
                     octant_index(node.aabc.origin, node.aabc.size, pv[1]) = i }
                 : i \in 0..7 }

\* the Value nodes below node, and those below its slots from slot i on
RECURSIVE NumValueNodes(_)
RECURSIVE NumValueNodesFrom(_, _)

NumValueNodesFrom(node, i) ==
    IF i > 7 THEN 0
    ELSE NumValueNodes(node.children[i]) + NumValueNodesFrom(node, i + 1)

NumValueNodes(node) ==
    IF node = None THEN 0
    ELSE IF node.tag = "Value" THEN 1
    ELSE NumValueNodesFrom(node, 0)

\* the consumer's query of point p in buffer buf: cell k of the buffer is buf[k+1]
RECURSIVE DecodeDescend(_, _, _, _, _)
DecodeDescend(buf, off, origin, size, p) ==
    LET cell == buf[off + octant_index(origin, size, p) + 1]
    IN  IF size = 2 THEN cell
        ELSE IF cell = 0 THEN 0
        ELSE DecodeDescend(buf, cell, octant_origin(origin, size, p), size \div 2, p)

Decode(buf, p) ==
    IF Len(buf) < 4 THEN 0
    ELSE LET origin == <<buf[2], buf[3], buf[4]>>
             size == buf[1]
         IN  IF \A i \in 1..3 : origin[i] <= p[i] /\ p[i] < origin[i] + size
             THEN DecodeDescend(buf, 4, origin, size, p)
             ELSE 0

\* the points of the cube (origin, size) whose descent from the block at off
\* ends at a nonzero payload: the descents of all the points of an octant
\* share its cell, so a zero cell answers for the whole octant
RECURSIVE DecodeSupportFrom(_, _, _, _)
DecodeSupportFrom(buf, off, origin, size) ==
    UNION { LET k == CHOOSE k \in 1..Len(OctantTable) : OctantTable[k].idx = i
                o == [a \in 1..3 |-> IF OctantTable[k].offs[a]
                                     THEN origin[a] + size \div 2 ELSE origin[a]]
                cell == buf[off + i + 1]
            IN  IF cell = 0 THEN {}
                ELSE IF size = 2 THEN {o}
                ELSE DecodeSupportFrom(buf, cell, o, size \div 2)
            : i \in 0..7 }

DecodeSupport(buf) ==
    IF Len(buf) < 4 THEN {}
    ELSE DecodeSupportFrom(buf, 4, <<buf[2], buf[3], buf[4]>>, buf[1])

\* the Children nodes below (and with) node, and those below its slots i..j-1
RECURSIVE NumChildrenNodes(_)
RECURSIVE NumChildrenNodesIn(_, _, _)

NumChildrenNodesIn(node, i, j) ==
    IF i >= j THEN 0
    ELSE NumChildrenNodes(node.children[i]) + NumChildrenNodesIn(node, i + 1, j)

NumChildrenNodes(node) ==
    IF node = None \/ node.tag = "Value" THEN 0
    ELSE 1 + NumChildrenNodesIn(node, 0, 8)

\* the reference encoding: the 8-cell block of node at offset off, followed by
\* the blocks of its Children children in octant order, each subtree whole;
\* the block of child i starts after the blocks of the subtrees of children 0..i-1
RefChildOffset(node, off, i) ==
    off + 8 + 8 * NumChildrenNodesIn(node, 0, i)

RECURSIVE RefBlocks(_, _)
RECURSIVE RefSubBlocks(_, _, _)

RefSubBlocks(node, off, i) ==
    IF i > 7 THEN << >>
    ELSE (IF node.children[i] = None THEN << >>
          ELSE RefBlocks(node.children[i], RefChildOffset(node, off, i)))
         \o RefSubBlocks(node, off, i + 1)

RefBlocks(node, off) ==
    IF node.aabc.size = 2
    THEN [i \in 1..8 |-> IF node.children[i - 1] = None THEN 0
                         ELSE node.children[i - 1].value]
    ELSE [i \in 1..8 |-> IF node.children[i - 1] = None THEN 0
                         ELSE RefChildOffset(node, off, i - 1)]
         \o RefSubBlocks(node, off, 0)

RefEncoding(r) ==
    IF r = None THEN <<0>>
    ELSE <<r.aabc.size, r.aabc.origin[1], r.aabc.origin[2], r.aabc.origin[3]>>
         \o RefBlocks(r, 4)

(***************************************************************************)
(* The claims.  The ghost map leaves is the finite map the tree refines:    *)
(* a call that returns adds exactly (pos, data) or deletes exactly the pair *)
(* at pos; a call that panics leaves it alone.                              *)
(***************************************************************************)

LeafCount ==
    Clean => /\ count_leaves(self) = n_ins - n_rem
             /\ count_leaves(self) = NumValueNodes(root)

LeafCountWitness ==
    /\ Clean /\ n_ins >= 3 /\ n_rem >= 1
    /\ count_leaves(self) = n_ins - n_rem /\ count_leaves(self) >= 2

\* C3: the tree refines the map. After any calls that returned, the pairs a
\* descent from the root reaches are exactly the pairs inserted and not removed.
RefinesMap ==
    Clean => ReachablePairs(root) = InsertedPairs

\* scenario B: (0,0,0), (1,1,1), (2,2,2) inserted, (0,0,0) removed
RefinesMapWitness ==
    /\ Clean /\ n_ins = 3 /\ n_rem = 1
    /\ DOMAIN leaves = { <<1, 1, 1>>, <<2, 2, 2>> }
    /\ ReachablePairs(root) = InsertedPairs

\* C4: insert into the empty tree, then remove the same position: the tree is
\* empty again (no root, count 0). Stated of the run (one insert and one remove
\* returned) and of the two operations composed on the empty tree.
InsertRemoveEmpty ==
    /\ (Clean /\ n_ins = 1 /\ n_rem = 1) => (root = None /\ n_leaves = 0)
    /\ (Clean /\ root = None /\ n_leaves = 0) =>
           \A p \in Positions, v \in Values :
               LET a == insert_leaf(self, v, p)
                   b == remove_leaf(Octree(a.n_leaves, a.root), p)
               IN  /\ a.panic = NoPanic /\ b.panic = NoPanic
                   /\ b.root = None /\ b.n_leaves = 0

InsertRemoveEmptyWitness ==
    Clean /\ n_ins = 1 /\ n_rem = 1 /\ root = None /\ n_leaves = 0

\* C5: in every reachable tree, insert_leaf at a position that holds a leaf
\* panics, whatever the payload; the tree it leaves holds no pair that was not
\* there and no more Value nodes than before.
DuplicateInsertFaults ==
    Clean => \A p \in DOMAIN leaves, v \in Values :
                 LET r == insert_leaf(self, v, p)
                 IN  /\ r.panic # NoPanic
                     /\ ReachablePairs(r.root) \subseteq InsertedPairs
                     /\ NumValueNodes(r.root) <= NumValueNodes(root)

\* a duplicate insert that panicked at the occupied slot of a size-2 node
DuplicateInsertFaultsWitness ==
    /\ fault.op = "insert_leaf" /\ fault.present /\ fault.panic = Overwrite
    /\ Cardinality(DOMAIN leaves) >= 2

\* C6: an insert_leaf that panics at a position holding a leaf leaves the leaf
\* count and the root as they were before the call.
DuplicateInsertKeepsState ==
    [][(fault'.op = "insert_leaf" /\ fault'.present)
           => (n_leaves' = n_leaves /\ root' = root)]_vars

\* the positions remove_leaf is probed at: those of the calls and a grid that
\* has points outside every root cube and points in empty octants
Probes == Positions \cup { <<x, y, z>> : x \in {-2, 1, 5}, y \in {-2, 1, 5}, z \in {-2, 1, 5} }

\* C7: in every reachable tree, remove_leaf at a position that holds no leaf
\* panics (the empty tree included).
RemoveAbsentFaults ==
    Clean => \A p \in Probes \ DOMAIN leaves : remove_leaf(self, p).panic # NoPanic

\* a remove that panicked at an empty octant below a root of two levels or more
RemoveAbsentFaultsWitness ==
    /\ fault.op = "remove_leaf" /\ ~fault.present /\ fault.panic = ChildNotFound
    /\ root # None /\ root.aabc.size >= 4

\* C8: a remove_leaf that panics at a position holding no leaf (the empty
\* tree included) leaves the leaf count and the tree as they were before the call.
FailedRemoveKeepsState ==
    [][(fault'.op = "remove_leaf" /\ ~fault'.present)
           => (n_leaves' = n_leaves /\ root' = root)]_vars

\* the panics of the Cube preconditions, of the tree invariants and of the
\* unreachable branches
InternalFaults ==
    { ExpandInside, ShrinkOutside, ChildOutside, NotTwice, NoOctant, AddToLeaf,
      Unreachable, RemoveFromValue, RootIsNone }

\* C9: a valid call (insert_leaf at a position holding no leaf, remove_leaf at
\* a position holding one) never ends in one of the internal faults.
ValidCallsNeverFault ==
    ( \/ (fault.op = "insert_leaf" /\ ~fault.present)
      \/ (fault.op = "remove_leaf" /\ fault.present) )
        => fault.panic \notin InternalFaults

SerializedExtent(r) ==
    /\ r.panic = NoPanic
    /\ Len(r.arr) = get_serialized_size(self)
    /\ r.val + 4 = get_serialized_size(self)

\* C11: the precomputed length is 1 for the empty tree and 4 + 8 x (number of
\* Children nodes) for a tree with a Children root, and it is the extent
\* serialize_recurse writes: no write falls outside the array (a write outside
\* panics) and the count returned for the root block plus 4 is the length.
SerializedSize ==
    Clean =>
        /\ root = None => get_serialized_size(self) = 1
        /\ root.tag = "Children" =>
               /\ get_serialized_size(self) = 4 + 8 * NumChildrenNodes(root)
               /\ SerializedExtent(
                      serialize_recurse(
                          4, serialize_header(get_serialized_size(self), root), root))

\* a root of size 8 over two chains: five Children nodes, 44 cells
SerializedSizeWitness ==
    /\ Clean /\ root.tag = "Children" /\ root.aabc.size = 8
    /\ NumChildrenNodes(root) = 5
    /\ get_serialized_size(self) = 44
    /\ Len(serialize(self).val) = 44

\* C12: after calls that returned, the root is absent iff the count is 0, a
\* bare Value node iff it is 1 and a Children node iff it is 2 or more; and
\* serialize() panics exactly when the tree holds one leaf.
RootShape ==
    Clean =>
        /\ root = None <=> n_leaves = 0
        /\ root.tag = "Value" <=> n_leaves = 1
        /\ root.tag = "Children" <=> n_leaves >= 2
        /\ serialize(self).panic # NoPanic <=> n_leaves = 1

\* serialize() called on the leaf that a remove_leaf left as the root
RootShapeWitness ==
    /\ fault.op = "serialize" /\ fault.panic = SingleLeaf
    /\ n_ins >= 2 /\ n_rem >= 1 /\ n_leaves = 1 /\ root.tag = "Value"

\* containment in plain integers: the point p in the cube c, the cube inner
\* (of size 1 or more) in the cube outer
InCube(c, p) ==
    \A i \in 1..3 : c.origin[i] <= p[i] /\ p[i] < c.origin[i] + c.size

CubeInCube(inner, outer) ==
    \A i \in 1..3 : /\ outer.origin[i] <= inner.origin[i]
                     /\ inner.origin[i] + inner.size <= outer.origin[i] + outer.size

\* C13, as stated: a remove_leaf that returns and leaves the tree non-empty
\* never leaves a root whose cube is smaller than the root cube before the call.
RootNeverShrinks ==
    [][(n_rem' = n_rem + 1 /\ root' # None)
           => root'.aabc.size >= root.aabc.size]_vars

\* C13, amended: the root cube never shrinks on insert_leaf (after an insert
\* that returns it contains the root cube before the call) and never grows on
\* remove_leaf (after a remove that returns with the tree non-empty it is
\* contained in the root cube before the call, and may be smaller).
RootGrowsOnInsertOnly ==
    [][/\ (n_ins' = n_ins + 1 /\ root # None) => CubeInCube(root.aabc, root'.aabc)
       /\ (n_rem' = n_rem + 1 /\ root' # None) => CubeInCube(root'.aabc, root.aabc)]_vars

\* two of three leaves removed: the second remove_leaf was called on a
\* Children root and left the remaining leaf, a cube of size 1, as the root
RootGrowsOnInsertOnlyWitness ==
    Clean /\ n_ins = 3 /\ n_rem = 2 /\ root.tag = "Value" /\ root.aabc.size = 1

\* c is one of the eight octants of parent, in plain integers
IsOctantOf(c, parent) ==
    /\ parent.size = 2 * c.size
    /\ \A i \in 1..3 : c.origin[i] \in {parent.origin[i], parent.origin[i] + c.size}

\* the cube and the cubes of twice its size around it lie in the i32 range
Representable(c) ==
    \A i \in 1..3 : /\ I32_MIN <= c.origin[i] - c.size
                     /\ c.origin[i] + 2 * c.size <= I32_MAX

\* C14, as stated: for a target outside the cube, expand_towards returns a
\* cube that contains the target and has the cube as one of its octants.
ExpandContainsTarget ==
    (call.op = "expand_towards" /\ ~InCube(call.self, call.arg)) =>
        /\ call.result.panic = NoPanic
        /\ InCube(call.result.val, call.arg)
        /\ IsOctantOf(call.self, call.result.val)

\* C14, amended: for a cube away from the ends of the i32 range and a target
\* outside it, expand_towards returns the cube of twice the size that has the
\* cube as one of its octants and is extended, on each axis, to the side of
\* the target: downwards iff the target is below the origin.  (It contains
\* the target only if the target is within one cube size of the cube.)
ExpandDoubles ==
    (call.op = "expand_towards" /\ ~InCube(call.self, call.arg)
         /\ Representable(call.self)) =>
        /\ call.result.panic = NoPanic
        /\ IsOctantOf(call.self, call.result.val)
        /\ \A i \in 1..3 : call.result.val.origin[i] < call.self.origin[i]
                                <=> call.arg[i] < call.self.origin[i]

\* one doubling towards a target three cells away: the target stays outside
ExpandDoublesWitness ==
    /\ call.op = "expand_towards"
    /\ call.self = Aabc(<<0, 0, 0>>, 1) /\ call.arg = <<3, -1, 3>>
    /\ call.result = Ok(Aabc(<<0, -1, 0>>, 2))
    /\ ~InCube(call.result.val, call.arg)

\* the upper corner of the cube lies in the i32 range
UpperCornerInRange(c) == \A i \in 1..3 : c.origin[i] + c.size <= I32_MAX

HalfOpenContainment ==
    /\ call.op = "contains" => call.result = Ok(InCube(call.self, call.arg))
    /\ call.op = "contains_aabc" => call.result = Ok(CubeInCube(call.arg, call.self))

\* C17: for any two distinct positions with i32 coordinates, inserting one
\* and then the other returns: the second insert_leaf, at a position that
\* holds no leaf, does not panic.
ArbitraryCoordinates ==
    (fault.op = "insert_leaf" /\ n_ins = 1 /\ n_rem = 0) => fault.present

\* below node, every Children node is twice the size of each child, each
\* child's cube is inside the node's cube and is one of its octants, the child
\* is in the slot get_octant_idx gives its cube, and no two children share a cube
RECURSIVE WellPlaced(_)
WellPlaced(node) ==
    \/ node.tag = "Value"
    \/ /\ \A i \in 0..7 :
              \/ node.children[i] = None
              \/ /\ node.aabc.size = 2 * node.children[i].aabc.size
                 /\ CubeInCube(node.children[i].aabc, node.aabc)
                 /\ IsOctantOf(node.children[i].aabc, node.aabc)
                 /\ get_octant_idx(node, node.children[i].aabc) = Ok(i)
                 /\ WellPlaced(node.children[i])
       /\ \A i, j \in 0..7 :
              (i # j /\ node.children[i] # None /\ node.children[j] # None)
                  => node.children[i].aabc # node.children[j].aabc

\* C18: in every reachable tree each Children node is twice the size of each
\* present child, each present child's cube is one of the node's eight octants
\* and the child is stored in the slot of index get_octant_idx of its cube.
OctantInvariant == root = None \/ WellPlaced(root)

\* a root of size 8 with two subtrees, after an insert and a remove
OctantInvariantWitness ==
    /\ Clean /\ n_rem >= 1 /\ root.tag = "Children" /\ root.aabc.size = 8
    /\ count_children(root).n >= 2
    /\ WellPlaced(root)

IsPowerOfTwo(n) == \E k \in 0..IntBits : n = 2^k

Log2(n) == CHOOSE k \in 0..IntBits : n = 2^k

\* below node, every cube size is a power of two and the Value nodes are the
\* nodes of size 1
RECURSIVE SizesOk(_)
SizesOk(node) ==
    /\ IsPowerOfTwo(node.aabc.size)
    /\ node.tag = "Value" <=> node.aabc.size = 1
    /\ node.tag = "Children" =>
           \A i \in 0..7 : node.children[i] = None \/ SizesOk(node.children[i])

\* the depths below node at which the Value nodes lie
RECURSIVE LeafDepths(_)
LeafDepths(node) ==
    IF node.tag = "Value" THEN {0}
    ELSE UNION { IF node.children[i] = None THEN {}
                 ELSE { d + 1 : d \in LeafDepths(node.children[i]) } : i \in 0..7 }

\* C19: in every reachable tree every cube size is a power of two, a node is
\* a Value node iff its size is 1, and every leaf lies at depth
\* log2(root size) below the root.
PowerOfTwoSizes ==
    root # None => /\ SizesOk(root)
                   /\ LeafDepths(root) = {Log2(root.aabc.size)}

\* three leaves at depth 3 below a root of size 8
PowerOfTwoSizesWitness ==
    /\ Clean /\ Cardinality(DOMAIN leaves) = 3
    /\ root.tag = "Children" /\ root.aabc.size = 8
    /\ LeafDepths(root) = {3}

\* C20: after every call that returned, the root is absent, a bare leaf, or
\* a Children node with two or more present children.
RootBranches ==
    Clean => \/ root = None
             \/ root.tag = "Value"
             \/ count_children(root).n >= 2

\* a Children root with two children after three inserts and a remove
RootBranchesWitness ==
    /\ Clean /\ n_ins = 3 /\ n_rem = 1
    /\ root.tag = "Children" /\ count_children(root).n = 2

\* below (and with) node, every Children node has a present child
RECURSIVE NoChildlessNode(_)
NoChildlessNode(node) ==
    \/ node.tag = "Value"
    \/ /\ count_children(node).n >= 1
       /\ \A i \in 0..7 :
              node.children[i] = None \/ NoChildlessNode(node.children[i])

\* C21: no reachable tree holds a Children node with no present child.
NoEmptyChildren == root = None \/ NoChildlessNode(root)

\* two leaves under a root of size 8 after a third was removed
NoEmptyChildrenWitness ==
    /\ Clean /\ n_ins = 3 /\ n_rem = 1
    /\ root.tag = "Children" /\ root.aabc.size = 8
    /\ NumChildrenNodes(root) = 5 /\ NoChildlessNode(root)

\* the node of the tree below (and with) node whose cube is cube, None if
\* the octant chain towards cube ends before it
RECURSIVE SubtreeAt(_, _)
SubtreeAt(node, cube) ==
    IF node = None THEN None
    ELSE IF node.aabc = cube THEN node
    ELSE IF node.tag = "Value" THEN None
    ELSE IF \E i \in 0..7 : /\ node.children[i] # None
                            /\ CubeInCube(cube, node.children[i].aabc)
    THEN SubtreeAt(node.children[CHOOSE i \in 0..7 :
                       /\ node.children[i] # None
                       /\ CubeInCube(cube, node.children[i].aabc)], cube)
    ELSE None

\* the position the insert_leaf of this step added
InsertedPosition == CHOOSE p \in DOMAIN leaves' : p \notin DOMAIN leaves

\* an insert_leaf that returned on a non-empty tree: the new root cube holds
\* the position and the old root cube, and the old root is still in the tree
GrownAroundRoot ==
    (root # None /\ n_ins' = n_ins + 1) =>
        /\ InCube(root'.aabc, InsertedPosition)
        /\ CubeInCube(root.aabc, root'.aabc)
        /\ IF root'.aabc = root.aabc
           THEN ReachablePairs(root') =
                    ReachablePairs(root) \cup
                        { <<InsertedPosition, leaves'[InsertedPosition]>> }
           ELSE SubtreeAt(root', root.aabc) = root

\* the faults of attaching a node to its parent (add_child)
AttachFaults == { ChildOutside, NotTwice, NoOctant, Overwrite, AddToLeaf }

\* an insert_leaf at a free position of a non-empty tree does not end in a
\* fault of attaching a node
AttachNeverFaults ==
    (root # None /\ fault'.op = "insert_leaf" /\ ~fault'.present) =>
        fault'.panic \notin AttachFaults

\* C22: insert_leaf on a non-empty tree leaves a root cube that holds the
\* position and the old root cube, keeps the old root as the subtree on the
\* octant chain of the new root, and never faults while attaching the old
\* root to an expanded node.
InsertGrowsAroundRoot == [][GrownAroundRoot /\ AttachNeverFaults]_vars

\* the part of C22 about calls that return
InsertReturnedGrowsAroundRoot == [][GrownAroundRoot]_vars

\* C23: an insert_leaf at a position that already holds a leaf is reported by
\* the occupied-slot check of add_child, in every reachable tree, a root that
\* is a single bare leaf included.
DuplicateReportedAsOverwrite ==
    (fault.op = "insert_leaf" /\ fault.present) => fault.panic = Overwrite

\* the one position left in the map after this step
Survivor == CHOOSE p \in DOMAIN leaves' : TRUE

\* a remove_leaf that returned on a tree with exactly two leaves: the root is
\* the other leaf, bare
SurvivorIsRoot ==
    (Cardinality(DOMAIN leaves) = 2 /\ n_rem' = n_rem + 1) =>
        /\ n_leaves' = 1
        /\ root' = new_leaf(leaves'[Survivor], Survivor)

\* t: what insert_leaf(v, q) answered on the tree of the bare leaf at p
GrownFromLeaf(t, p, v, q) ==
    /\ t.panic = NoPanic
    /\ t.n_leaves = 2
    /\ t.root # None /\ t.root.tag = "Children"
    /\ ReachablePairs(t.root) = { <<p, leaves'[p]>>, <<q, v>> }
    /\ WellPlaced(t.root) /\ SizesOk(t.root) /\ NoChildlessNode(t.root)

\* after that remove_leaf, insert_leaf at any other position of Q grows a
\* correct tree from the leaf
GrowsFromSurvivor(Q) ==
    (Cardinality(DOMAIN leaves) = 2 /\ n_rem' = n_rem + 1) =>
        \A q \in Q \ {Survivor} :
            GrownFromLeaf(insert_leaf(Octree(n_leaves', root'), 0, q),
                          Survivor, 0, q)

\* C28: a remove_leaf that returns on a tree with exactly two leaves leaves
\* the other leaf as the root, a bare Value node of size 1 at its position,
\* and insert_leaf at any other position then grows a correct tree from it.
TwoLeavesCollapseToLeaf ==
    [][SurvivorIsRoot /\ GrowsFromSurvivor(Positions)]_vars

\* the same with the later insert_leaf drawn from the positions near the origin
TwoLeavesCollapseToLeafNear ==
    [][SurvivorIsRoot /\ GrowsFromSurvivor(NearPositions)]_vars

\* a: what insert_leaf(v, p) answered on the tree, b: what remove_leaf(p)
\* answered on the tree a left
UndoneBy(a, b) ==
    /\ a.panic = NoPanic
    /\ b.panic = NoPanic
    /\ b.root = root
    /\ b.n_leaves = n_leaves

\* on a tree with its leaves in Q, insert_leaf(v, p) then remove_leaf(p) gives
\* back the tree, for every p of Q that holds no leaf
InsertRemoveGivesBack(Q) ==
    (Clean /\ DOMAIN leaves \subseteq Q) =>
        \A p \in Q \ DOMAIN leaves :
            UndoneBy(insert_leaf(self, 0, p),
                     remove_leaf(Octree(insert_leaf(self, 0, p).n_leaves,
                                        insert_leaf(self, 0, p).root), p))

\* C29: on every reachable tree and for every position that holds no leaf,
\* insert_leaf at the position followed by remove_leaf at it gives back a
\* structurally equal tree with the same leaf count.
InsertRemoveIdentity == InsertRemoveGivesBack(Positions)

\* the same with the leaves and the position drawn from the positions near the
\* origin
InsertRemoveIdentityNear == InsertRemoveGivesBack(NearPositions)

\* the cell of the buffer at offset a (offsets count from 0)
Cell(buf, a) == buf[a + 1]

\* c is the offset of a block after the root's, behind the block at off
ValidPointer(buf, off, c) ==
    /\ c > off
    /\ c <= Len(buf) - 8
    /\ \E k \in 1..Len(buf) : c = 4 + 8 * k

\* in the block at off, which is node's, and in the blocks below it: every
\* nonzero cell of a block of a node of size > 2 is a valid pointer, and the
\* slot of every present child holds one
RECURSIVE PointersOk(_, _, _)
PointersOk(buf, node, off) ==
    \/ node.aabc.size <= 2
    \/ \A i \in 0..7 :
          /\ Cell(buf, off + i) # 0 => ValidPointer(buf, off, Cell(buf, off + i))
          /\ node.children[i] # None =>
                 /\ ValidPointer(buf, off, Cell(buf, off + i))
                 /\ PointersOk(buf, node.children[i], Cell(buf, off + i))

\* the offsets of the blocks of the nodes of size > 2, found from the block at
\* off along the valid pointers
RECURSIVE PointerBlocks(_, _, _)
PointerBlocks(buf, node, off) ==
    IF node.aabc.size <= 2 THEN {}
    ELSE {off} \cup
         UNION { IF /\ node.children[i] # None
                    /\ ValidPointer(buf, off, Cell(buf, off + i))
                 THEN PointerBlocks(buf, node.children[i], Cell(buf, off + i))
                 ELSE {}
                 : i \in 0..7 }

\* the nonzero cells of those blocks
PointerCells(buf, node) ==
    { pc \in PointerBlocks(buf, node, 4) \X (0..7) : Cell(buf, pc[1] + pc[2]) # 0 }

\* every block after the root's is the target of exactly one of those cells
PointedOnce(buf, node) ==
    \A k \in 1..((Len(buf) - 4) \div 8 - 1) :
        Cardinality({ pc \in PointerCells(buf, node) :
                        Cell(buf, pc[1] + pc[2]) = 4 + 8 * k }) = 1

\* C30: in the buffer of serialize() for a reachable tree with a Children
\* root, every nonzero cell of a block of a node of size > 2 is a pointer
\* 4 + 8k, k >= 1, beyond the offset of its own block and at most length - 8,
\* and every block but the root's is pointed to by exactly one cell.
SerializedPointers ==
    (Clean /\ root # None /\ root.tag = "Children") =>
        /\ serialize(self).panic = NoPanic
        /\ PointersOk(serialize(self).val, root, 4)
        /\ PointedOnce(serialize(self).val, root)

\* a root of size 8 or more over two chains: at least four pointer cells
SerializedPointersWitness ==
    /\ Clean /\ root # None /\ root.tag = "Children" /\ root.aabc.size >= 8
    /\ serialize(self).panic = NoPanic
    /\ Cardinality(PointerCells(serialize(self).val, root)) >= 4
    /\ PointersOk(serialize(self).val, root, 4)

\* the cube of twice the size with the origin lowered by the old size on each
\* axis where the target is below the old origin
Expanded(c, target) ==
    Aabc([i \in 1..3 |-> IF target[i] < c.origin[i]
                         THEN c.origin[i] - c.size ELSE c.origin[i]],
         2 * c.size)

\* what C26 says of the call made
ExpandShrinkFaultsFor(c, target) ==
    /\ call.op = "expand_towards" =>
           /\ call.result.panic # NoPanic <=> InCube(c, target)
           /\ ~InCube(c, target) => call.result.val = Expanded(c, target)
    /\ call.op = "shrink_towards" =>
           (call.result.panic # NoPanic <=> ~InCube(c, target))

\* C26: expand_towards(target) on a cube that does not contain target returns
\* the cube of twice the size with the origin lowered by the old size on each
\* axis where target is below it; expand_towards faults iff the cube contains
\* target, and shrink_towards faults iff it does not.
ExpandShrinkFaults ==
    call.op \in {"expand_towards", "shrink_towards"} =>
        ExpandShrinkFaultsFor(call.self, call.arg)

\* the same for the cubes that, with the cubes of twice their size around
\* them, lie in the i32 range
ExpandShrinkFaultsInRange ==
    (call.op \in {"expand_towards", "shrink_towards"} /\ Representable(call.self)) =>
        ExpandShrinkFaultsFor(call.self, call.arg)

(***************************************************************************)
(* The node calls: one call of get_octant_idx or add_child on a node drawn  *)
(* at the start.                                                            *)
(***************************************************************************)
\* the widest root a release build grows: from a leaf at [-1, -1, -1] up to
\* i32::MAX, the upper end excluded
WideCube == Aabc(<<-1, -1, -1>>, TwoW \div 2)

\* the cubes of the Children nodes: size 2 or more, inside the i32 range
NodeCubes == { c \in Cubes \ EdgeCubes : c.size >= 2 } \cup { WideCube }

\* the cubes asked for: the cubes in the range, the unit cubes at the targets
\* and the last unit cube of the wide root
TargetCubes ==
    (Cubes \ EdgeCubes) \cup { Aabc(p, 1) : p \in Targets \ { <<I32_MAX, 0, 0>> } }
        \cup { Aabc(<<I32_MAX - 1, 0, 0>>, 1) }

\* the node of the octant at the origin of c: a leaf under a node of size 2
FirstChild(c) ==
    IF c.size = 2 THEN new_leaf(0, c.origin) ELSE Node_empty(c.origin, c.size \div 2)

\* the root insert_leaf builds at its last doubling from a leaf at the origin
\* towards [i32::MAX, 0, 0], and the node it attaches to it
LastDoubling == Node_empty(<<0, 0, 0>>, TwoW \div 2)
LastDoubled == Node_empty(<<0, 0, 0>>, TwoW \div 4)

\* the nodes add_child is called on: empty, with one child, leaves
Parents ==
    { Node_empty(c.origin, c.size) : c \in NodeCubes }
        \cup { add_child(Node_empty(c.origin, c.size), FirstChild(c)).node : c \in NodeCubes }
        \cup { new_leaf(0, <<x, y, z>>) : x \in OriginCoords, y \in OriginCoords,
                                          z \in OriginCoords }
        \cup { LastDoubling }

\* the nodes attached: leaves and empty nodes
ChildNodes ==
    { new_leaf(0, p) : p \in Targets \ { <<I32_MAX, 0, 0>> } }
        \cup { Node_empty(c.origin, c.size) : c \in NodeCubes }
        \cup { LastDoubled, FirstChild(WideCube) }

InitNode ==
    /\ n_leaves = Octree_new.n_leaves
    /\ root = Octree_new.root
    /\ fault = NoFault
    /\ overflow_checks \in BOOLEAN
    /\ leaves = NoLeaves
    /\ n_ins = 0
    /\ n_rem = 0
    /\ turns = 0
    /\ \/ \E c \in NodeCubes, t \in TargetCubes :
              call = Pending(Node_empty(c.origin, c.size), "target", t)
       \/ \E n \in Parents, c \in ChildNodes : call = Pending(n, "child", c)

CallGetOctantIdx ==
    /\ call.op = "pending" /\ call.kind = "target"
    /\ call' = Call("get_octant_idx", get_octant_idx(call.self, call.arg))
    /\ UNCHANGED <<n_leaves, root, fault, overflow_checks, leaves, n_ins, n_rem, turns>>

CallAddChild ==
    /\ call.op = "pending" /\ call.kind = "child"
    /\ call' = Call("add_child", add_child(call.self, call.arg))
    /\ UNCHANGED <<n_leaves, root, fault, overflow_checks, leaves, n_ins, n_rem, turns>>

NextNode ==
    \/ CallGetOctantIdx
    \/ CallAddChild

SpecNode == InitNode /\ [][NextNode]_vars

\* the eight octants, by the axes on which they are the upper half
OctantFlags == { <<x, y, z>> : x \in BOOLEAN, y \in BOOLEAN, z \in BOOLEAN }

\* the octant of parent with these flags
OctantCube(parent, up) ==
    Aabc([i \in 1..3 |-> parent.origin[i]
                            + (IF up[i] THEN parent.size \div 2 ELSE 0)],
         parent.size \div 2)

\* the index C24 gives the octant with these flags
ClaimedIdx(up) ==
    CASE up = <<FALSE, FALSE, FALSE>> -> 6
      [] up = <<TRUE,  FALSE, FALSE>> -> 5
      [] up = <<FALSE, TRUE,  FALSE>> -> 2
      [] up = <<TRUE,  TRUE,  FALSE>> -> 1
      [] up = <<FALSE, FALSE, TRUE>>  -> 7
      [] up = <<TRUE,  FALSE, TRUE>>  -> 4
      [] up = <<FALSE, TRUE,  TRUE>>  -> 3
      [] up = <<TRUE,  TRUE,  TRUE>>  -> 0

FlagsOf(c, parent) ==
    << c.origin[1] # parent.origin[1], c.origin[2] # parent.origin[2],
       c.origin[3] # parent.origin[3] >>

\* the node is a Children node, the child's cube is one of its octants and
\* the octant's slot is empty
CanAttach(node, child) ==
    /\ node.tag = "Children"
    /\ IsOctantOf(child.aabc, node.aabc)
    /\ node.children[ClaimedIdx(FlagsOf(child.aabc, node.aabc))] = None

\* what C25 says of the add_child(child) made on node and answered with r
AddChildContract(node, child, r) ==
    /\ r.panic = NoPanic <=> CanAttach(node, child)
    /\ CanAttach(node, child) =>
           /\ r.val = ClaimedIdx(FlagsOf(child.aabc, node.aabc))
           /\ r.node = [node EXCEPT
                  !.children[ClaimedIdx(FlagsOf(child.aabc, node.aabc))] = child]

\* C25: add_child(child) returns iff the node is a Children node, the child's
\* cube has half the node's size and is one of its eight octants, and the
\* octant's slot is empty; it then fills that slot and leaves the other seven
\* as they were; in every other case it panics.
AddChildSucceedsIff ==
    call.op = "add_child" => AddChildContract(call.self, call.arg, call.result)

\* the same for the nodes whose cube has its size and its upper corner in the
\* i32 range
AddChildSucceedsIffInRange ==
    (call.op = "add_child" /\ UpperCornerInRange(call.self.aabc)
         /\ call.self.aabc.size <= I32_MAX) =>
        AddChildContract(call.self, call.arg, call.result)

(***************************************************************************)
(* insert_leaf on a non-empty tree, one step per turn of its while loop:    *)
(* the root is moved out of the tree into node, node grows until its cube   *)
(* contains the leaf, the leaf is added below it and it becomes the root.   *)
(***************************************************************************)
\* the roots the loop starts from: a bare leaf, or the root over two leaves
GrowStarts ==
    { new_leaf(0, p) : p \in Positions }
        \cup { insert_leaf(Octree(1, new_leaf(0, pq[1])), 0, pq[2]).root :
                   pq \in { x \in NearPositions \X NearPositions : x[1] # x[2] } }

\* the call in its loop: node is the local of insert_leaf, arg the position
Growing(node, pos) ==
    [op |-> "growing", self |-> node, node |-> node, arg |-> pos, steps |-> 0,
     panic |-> NoPanic]

\* insert_leaf after its first three statements
InitGrow ==
    /\ fault = NoFault
    /\ overflow_checks \in BOOLEAN
    /\ leaves = NoLeaves
    /\ n_ins = 0
    /\ n_rem = 0
    /\ turns = 0
    /\ root = None
    /\ \E start \in GrowStarts, pos \in Positions :
           /\ n_leaves = NumValueNodes(start) + 1
           /\ call = Growing(start, pos)

\* one turn of the loop body: expanded is node.aabc.expand_towards(pos)
grow_once_expanded(node, expanded) ==
    IF expanded.panic # NoPanic THEN NodePanic(expanded.panic, node)
    ELSE add_child(Node_empty(expanded.val.origin, expanded.val.size), node)

grow_once(node, leaf) ==
    grow_once_expanded(node, expand_towards(node.aabc, leaf.aabc.origin))

\* r: the node after the turn, or the panic of the turn
GrowIterated(r) ==
    call' = IF r.panic = NoPanic
            THEN [call EXCEPT !.node = r.node, !.steps = @ + 1]
            ELSE [call EXCEPT !.op = "panicked", !.panic = r.panic]

\* c: node.aabc.contains(leaf.aabc.origin), the loop's test
GrowIterateOn(c) ==
    /\ c.panic # NoPanic \/ ~c.val
    /\ \E r \in { IF c.panic # NoPanic THEN NodePanic(c.panic, call.node)
                  ELSE grow_once(call.node, new_leaf(0, call.arg)) } :
           GrowIterated(r)

\* the test fails (or panics) and the body runs
GrowIterate ==
    /\ call.op = "growing"
    /\ \E c \in { contains(call.node.aabc, call.arg) } : GrowIterateOn(c)
    /\ turns' = turns + 1
    /\ UNCHANGED <<n_leaves, root, fault, overflow_checks, leaves, n_ins, n_rem>>

GrowExitOn(c) ==
    /\ c.panic = NoPanic /\ c.val
    /\ call' = [call EXCEPT !.op = "adding"]

\* the test holds: the loop is left
GrowExit ==
    /\ call.op = "growing"
    /\ \E c \in { contains(call.node.aabc, call.arg) } : GrowExitOn(c)
    /\ turns' = turns + 1
    /\ UNCHANGED <<n_leaves, root, fault, overflow_checks, leaves, n_ins, n_rem>>

\* a: the answer of node.add_down(leaf)
GrowAdded(a) ==
    /\ root' = IF a.panic = NoPanic THEN a.node ELSE None
    /\ call' = IF a.panic = NoPanic THEN [call EXCEPT !.op = "grown", !.node = a.node]
               ELSE [call EXCEPT !.op = "panicked", !.panic = a.panic]

\* node.add_down(leaf); self.root = Some(node)
GrowAddDown ==
    /\ call.op = "adding"
    /\ \E a \in { add_down(call.node, new_leaf(0, call.arg)) } : GrowAdded(a)
    /\ turns' = turns + 1
    /\ UNCHANGED <<n_leaves, fault, overflow_checks, leaves, n_ins, n_rem>>

NextGrow ==
    \/ GrowIterate
    \/ GrowExit
    \/ GrowAddDown

\* the call takes its next step.  Every step of NextGrow is one, and one is
\* possible exactly while the call is in its loop or adding the leaf: the
\* test of the loop either holds, or fails, or panics, and add_down answers.
Proceed ==
    /\ call.op \in {"growing", "adding"}
    /\ turns' = turns + 1

\* the call runs on one thread: it goes on as long as it has a next step
SpecGrow == InitGrow /\ [][NextGrow]_vars /\ WF_turns(Proceed)

\* the loop is left with a node whose cube contains the position
LoopLeft == call.op = "adding" /\ InCube(call.node.aabc, call.arg)

\* below the root the call leaves, no leaf lies deeper than log2(root size)
DepthBounded ==
    call.op = "grown" =>
        /\ IsPowerOfTwo(root.aabc.size)
        /\ \A d \in LeafDepths(root) : d <= Log2(root.aabc.size)

\* C27: every operation terminates: for any root cube and any position the
\* loop of insert_leaf reaches, after finitely many doublings, a root cube
\* that contains the position, and the recursions below the root go no
\* deeper than log2(root size).
GrowthReachesPosition == <>LoopLeft /\ []DepthBounded

\* the call ends, by returning or by a panic
GrowthEnds == <>(call.op \in {"grown", "panicked"})

\* the steps agree with insert_leaf as a whole
GrowthIsInsertLeaf ==
    call.op \in {"grown", "panicked"} =>
        /\ insert_leaf(Octree(n_leaves - 1, call.self), 0, call.arg).root = root
        /\ insert_leaf(Octree(n_leaves - 1, call.self), 0, call.arg).panic = call.panic
        /\ call.steps <= IntBits

=============================================================================
